---- MODULE Spec2Model ----
(***************************************************************************)
(* Model of Computational-Exploration/Chapter-2/EColiSize.py: a linear     *)
(* script that calibrates a pixel size from a graticule image (manually    *)
(* and by two ginput clicks), normalizes the E. coli image, blacks out a   *)
(* scale bar with four notches by slice assignment and saves the figure.   *)
(*                                                                         *)
(* Numbers the script holds as float64 are modelled as IEEE-754 binary64   *)
(* values: a finite positive value is M * 2^e with a 53-bit significand    *)
(* M = hi * 2^27 + lo, 2^52 <= M < 2^53, and every operation rounds to     *)
(* nearest, ties to even.  All values of the script are non-negative, and  *)
(* their exponents stay far from the overflow and subnormal ranges.        *)
(***************************************************************************)
EXTENDS Integers, Sequences, FiniteSets, TLC

\* ------------------------------------------------------------------ bounds
MaxEvents == 3      \* pointer/key events handled by one ginput call
MaxVal == 3         \* spread of the intensities in the modelled image files

\* --------------------------------------------------------------- float64
B27 == 2^27
B26 == 2^26
B25 == 2^25

FZero == [k |-> "zero", hi |-> 0, lo |-> 0, e |-> 0]
FInf  == [k |-> "inf",  hi |-> 0, lo |-> 0, e |-> 0]
FNaN  == [k |-> "nan",  hi |-> 0, lo |-> 0, e |-> 0]
Unbound == [k |-> "unbound", hi |-> 0, lo |-> 0, e |-> 0]
Fin(h, l, x) == [k |-> "fin", hi |-> h, lo |-> l, e |-> x]

\* conversion of a non-negative integer below 2^26 (exact)
FromInt(n) ==
    IF n = 0 THEN FZero
    ELSE LET t == CHOOSE i \in 0..25 : n * 2^i >= B25 /\ n * 2^i < B26
         IN Fin(n * 2^t, 0, -(t + 27))

\* two-limb naturals <<hi, lo>>, value hi * 2^27 + lo
MGe(a, b) == a[1] > b[1] \/ (a[1] = b[1] /\ a[2] >= b[2])
MSub(a, b) == IF a[2] >= b[2] THEN <<a[1] - b[1], a[2] - b[2]>>
              ELSE <<a[1] - b[1] - 1, a[2] + B27 - b[2]>>
MMul(a, j) == <<a[1] * j + ((a[2] * j) \div B27), (a[2] * j) % B27>>
MInc(a) == IF a[2] + 1 = B27 THEN <<a[1] + 1, 0>> ELSE <<a[1], a[2] + 1>>
MHalf(a) == <<a[1] \div 2, (a[2] \div 2) + (a[1] % 2) * B26>>

\* one radix-8 step of the long division: st = <<8 * remainder, quotient, steps left>>
DivStep(st, d) ==
    LET dig == Cardinality({j \in 1..7 : MGe(st[1], MMul(d, j))})
        q8  == MMul(st[2], 8)
    IN <<MMul(MSub(st[1], MMul(d, dig)), 8), <<q8[1], q8[2] + dig>>, st[3] - 1>>

RECURSIVE DivLoop(_, _)
DivLoop(st, d) == IF st[3] = 0 THEN st ELSE DivLoop(DivStep(st, d), d)

Renorm(m, x) == IF m[1] = B26 THEN Fin(B25, 0, x + 1) ELSE Fin(m[1], m[2], x)

RoundEven(m, up, tie) ==
    IF up \/ (tie /\ m[2] % 2 = 1) THEN MInc(m) ELSE m

\* a / b on float64 operands (numpy semantics: x/0 is inf, 0/0 is nan, no exception)
FDiv(a, b) ==
    CASE a.k = "nan" \/ b.k = "nan" -> FNaN
      [] a.k = "inf" -> IF b.k = "inf" THEN FNaN ELSE FInf
      [] b.k = "inf" -> FZero
      [] b.k = "zero" -> IF a.k = "zero" THEN FNaN ELSE FInf
      [] a.k = "zero" -> FZero
      [] OTHER ->
         LET ma == <<a.hi, a.lo>>
             mb == <<b.hi, b.lo>>
             big == MGe(ma, mb)
             qr == DivLoop(<<MMul(ma, IF big THEN 4 ELSE 8), <<0, 0>>, 18>>, mb)
             rb == qr[2][2] % 2 = 1
             sticky == qr[1] # <<0, 0>>
             q  == RoundEven(MHalf(qr[2]), rb /\ sticky, rb /\ ~sticky)
         IN Renorm(q, a.e - b.e - (IF big THEN 52 ELSE 53))

\* j * a for an integer literal 1 <= j <= 10 and a float64 a
FMulInt(j, a) ==
    IF a.k # "fin" THEN a
    ELSE LET m1 == MMul(<<a.hi, a.lo>>, j)
             s  == CHOOSE i \in 0..4 : m1[1] \div 2^i >= B25 /\ m1[1] \div 2^i < B26
             p  == 2^s
             rem == m1[2] % p
             m  == <<m1[1] \div p, (m1[2] \div p) + (m1[1] % p) * (B27 \div p)>>
             q  == RoundEven(m, 2 * rem > p, 2 * rem = p)
         IN Renorm(q, a.e + s)

\* int(a): truncation toward zero of a finite float64 below 2^31
Trunc(a) ==
    IF a.k = "zero" THEN 0
    ELSE LET n == -a.e
         IN IF n >= 53 THEN 0
            ELSE IF n >= 27 THEN a.hi \div 2^(n - 27)
            ELSE a.hi * 2^(27 - n) + (a.lo \div 2^n)

\* a <= b on float64 values (false when either is nan)
FLeq(a, b) ==
    \/ a.k = "zero" /\ b.k \in {"zero", "fin", "inf"}
    \/ a.k = "fin" /\ b.k = "inf"
    \/ a.k = "inf" /\ b.k = "inf"
    \/ /\ a.k = "fin" /\ b.k = "fin"
       /\ \/ a.e < b.e
          \/ a.e = b.e /\ MGe(<<b.hi, b.lo>>, <<a.hi, a.lo>>)

\* ------------------------------------------------------ program constants
ManualLeft == 62
ManualRight == 1299
ProfileRow == 400
scale_bar_xL == 1150
scale_bar_y == 900
scale_bar_thickness == 5
scale_bar_height == 25
TickKeys == {"1", "5", "10"}

\* 1000. * 8 * 10
KnownDistanceNm == FMulInt(10, FMulInt(8, FromInt(1000)))

\* ------------------------------------------------------------ input files
\* An image is modelled on a sample of its pixel grid: the corner near (0, 0),
\* the rows around every row boundary of the bar and of the notches, the
\* columns from the bar's origin on, and the columns around the ticks of the
\* reference calibration (1000 / 64.67 = 15.46 pixels per um: 15, 77, 154).
SampleRows == {0, 1, 874, 875, 899, 900, 901, 902, 904, 905}
SampleCols == {0, 1} \cup (1149 .. 1167) \cup (1220 .. 1229)
              \cup (1292 .. 1296) \cup (1303 .. 1306)

NoImage == [h |-> 0, w |-> 0, pix |-> [p \in {} |-> 0]]
NoFile == [exists |-> FALSE, img |-> NoImage]

\* uint16 intensities of the modelled files
PatternValue(pat, r, c) ==
    CASE pat = "flat"   -> MaxVal
      [] pat = "ramp"   -> (r + c) % (MaxVal + 1)
      [] pat = "bright" -> 65535 - ((r * c) % MaxVal)

ImageOf(shape, pat) ==
    [h |-> shape[1], w |-> shape[2],
     pix |-> [p \in {q \in SampleRows \X SampleCols : q[1] < shape[1] /\ q[2] < shape[2]}
                |-> PatternValue(pat, p[1], p[2])]]

GraticuleShapes == {<<1040, 1392>>, <<300, 1392>>}
EcoliShapes == {<<1040, 1392>>, <<903, 1160>>, <<600, 800>>}
Patterns == {"flat", "ramp", "bright"}

\* only the shape of the graticule image reaches the program state
GraticuleFiles ==
    {NoFile} \cup {[exists |-> TRUE, img |-> [h |-> s[1], w |-> s[2], pix |-> NoImage.pix]] :
                     s \in GraticuleShapes}
EcoliFiles ==
    {NoFile} \cup {[exists |-> TRUE, img |-> ImageOf(<<1040, 1392>>, pat)] : pat \in Patterns}
             \cup {[exists |-> TRUE, img |-> ImageOf(s, "ramp")] : s \in EcoliShapes}

\* data coordinates a click can report (integer-valued float64: their
\* difference and its absolute value are exact)
ClickXs == {62, 66, 142, 150, 1299}
ClickYs == {100, 300}

\* ------------------------------------------------------------------ state
VARIABLES pc, fault, graticule_tif, ecoli_tif, calibrated_png,
          graticule, pixels_between_lines, nm_per_pixel,
          clicks, stamps, events,
          ecoli, ecoli_norm, scale_bar_length, scale_bar_offset

vars == <<pc, fault, graticule_tif, ecoli_tif, calibrated_png,
          graticule, pixels_between_lines, nm_per_pixel,
          clicks, stamps, events,
          ecoli, ecoli_norm, scale_bar_length, scale_bar_offset>>

Init ==
    /\ pc = "read_graticule"
    /\ fault = "none"
    /\ graticule_tif \in GraticuleFiles
    /\ ecoli_tif \in EcoliFiles
    /\ calibrated_png = [exists |-> FALSE, img |-> NoImage, labels |-> {}]
    /\ graticule = NoImage
    /\ pixels_between_lines = -1
    /\ nm_per_pixel = Unbound
    /\ clicks = <<>>
    /\ stamps = <<>>
    /\ events = 0
    /\ ecoli = NoImage
    /\ ecoli_norm = NoImage
    /\ scale_bar_length = Unbound
    /\ scale_bar_offset = [t \in TickKeys |-> -1]

\* ---------------------------------------------------------------- helpers
Abs(n) == IF n < 0 THEN -n ELSE n
MinOf(S) == CHOOSE v \in S : \A u \in S : v <= u
MaxOf(S) == CHOOSE v \in S : \A u \in S : v >= u

\* indices selected by the slice a:b of an axis of length n (0 <= a, 0 <= b):
\* out-of-range bounds are clipped to n, no exception
Slice(a, b, n) == (IF a < n THEN a ELSE n) .. ((IF b < n THEN b ELSE n) - 1)

\* img[r0:r1, c0:c1] = 0 on a float64 array
AssignZero(img, r0, r1, c0, c1) ==
    [img EXCEPT !.pix = [p \in DOMAIN img.pix |->
        IF p[1] \in Slice(r0, r1, img.h) /\ p[2] \in Slice(c0, c1, img.w)
        THEN FZero ELSE img.pix[p]]]

\* faulty variant: the distance counts both end pixels
NmPerPixelFencepost(D) == FDiv(KnownDistanceNm, FromInt(D + 1))

\* 1000. * 8 * 10 / pixels_between_lines
NmPerPixel(D) == FDiv(KnownDistanceNm, FromInt(D))

\* the intensities that occur in an image
PixelValues(img) == {img.pix[p] : p \in DOMAIN img.pix}

\* faulty variant: the minimum is not subtracted in the numerator
QuotientTableNoShift(vals) ==
    [v \in vals |-> FDiv(FromInt(v), FromInt(MaxOf(vals) - MinOf(vals)))]

\* (v - min) / (max - min) for every intensity v of the set vals:
\* uint16 operands, float64 quotient
QuotientTable(vals) ==
    [v \in vals |-> FDiv(FromInt(v - MinOf(vals)), FromInt(MaxOf(vals) - MinOf(vals)))]

\* (ecoli - np.min(ecoli)) / (np.max(ecoli) - np.min(ecoli)), elementwise
\* (the singleton binds the table of quotients, which is computed once)
NormalizeImage(img) ==
    CHOOSE out \in {[img EXCEPT !.pix = [p \in DOMAIN img.pix |-> quot[img.pix[p]]]] :
                      quot \in {QuotientTable(PixelValues(img))}} : TRUE

\* faulty variant: the 10 um offset multiplies the truncated 1 um offset
OffsetsOfTruncFirst(len) ==
    [t \in TickKeys |-> CASE t = "1"  -> Trunc(len)
                          [] t = "5"  -> Trunc(FMulInt(5, len))
                          [] t = "10" -> 10 * Trunc(len)]

\* faulty variant: the entries of the 5 um and 10 um ticks are exchanged
OffsetsOfSwapped(len) ==
    [t \in TickKeys |-> CASE t = "1"  -> Trunc(len)
                          [] t = "5"  -> Trunc(FMulInt(10, len))
                          [] t = "10" -> Trunc(FMulInt(5, len))]

\* the dictionary scale_bar_offset
OffsetsOf(len) ==
    [t \in TickKeys |-> CASE t = "1"  -> Trunc(len)
                          [] t = "5"  -> Trunc(FMulInt(5, len))
                          [] t = "10" -> Trunc(FMulInt(10, len))]

\* faulty variant: the horizontal line stops one column short (no 1 + in its stop)
DrawScaleBarShort(img, off) ==
    LET bar == AssignZero(img, scale_bar_y, scale_bar_y + scale_bar_thickness,
                          scale_bar_xL, scale_bar_xL + off["10"])
        n0  == AssignZero(bar, scale_bar_y - scale_bar_height, 1 + scale_bar_y,
                          scale_bar_xL, 1 + scale_bar_xL)
        n1  == AssignZero(n0, scale_bar_y - scale_bar_height, 1 + scale_bar_y,
                          scale_bar_xL + off["1"], 1 + scale_bar_xL + off["1"])
        n5  == AssignZero(n1, scale_bar_y - scale_bar_height, 1 + scale_bar_y,
                          scale_bar_xL + off["5"], 1 + scale_bar_xL + off["5"])
    IN AssignZero(n5, scale_bar_y - scale_bar_height, 1 + scale_bar_y,
                  scale_bar_xL + off["10"], 1 + scale_bar_xL + off["10"])

\* the horizontal line and the four notches
DrawScaleBar(img, off) ==
    LET bar == AssignZero(img, scale_bar_y, scale_bar_y + scale_bar_thickness,
                          scale_bar_xL, 1 + scale_bar_xL + off["10"])
        n0  == AssignZero(bar, scale_bar_y - scale_bar_height, 1 + scale_bar_y,
                          scale_bar_xL, 1 + scale_bar_xL)
        n1  == AssignZero(n0, scale_bar_y - scale_bar_height, 1 + scale_bar_y,
                          scale_bar_xL + off["1"], 1 + scale_bar_xL + off["1"])
        n5  == AssignZero(n1, scale_bar_y - scale_bar_height, 1 + scale_bar_y,
                          scale_bar_xL + off["5"], 1 + scale_bar_xL + off["5"])
    IN AssignZero(n5, scale_bar_y - scale_bar_height, 1 + scale_bar_y,
                  scale_bar_xL + off["10"], 1 + scale_bar_xL + off["10"])

\* ---------------------------------------------------------------- actions
\* graticule = imageio.v3.imread('Graticule100x.tif')
ReadGraticule ==
    /\ pc = "read_graticule"
    /\ IF graticule_tif.exists
       THEN /\ graticule' = graticule_tif.img
            /\ pc' = "profile"
            /\ fault' = fault
       ELSE /\ graticule' = graticule
            /\ pc' = "aborted"
            /\ fault' = "FileNotFoundError"
    /\ UNCHANGED <<graticule_tif, ecoli_tif, calibrated_png, pixels_between_lines,
                   nm_per_pixel, clicks, stamps, events, ecoli, ecoli_norm,
                   scale_bar_length, scale_bar_offset>>

\* figure 1, graticule[20, 10], intensity_profile = graticule[400, :], figure 2
Profile ==
    /\ pc = "profile"
    /\ IF 20 < graticule.h /\ 10 < graticule.w /\ ProfileRow < graticule.h
       THEN pc' = "manual" /\ fault' = fault
       ELSE pc' = "aborted" /\ fault' = "IndexError"
    /\ UNCHANGED <<graticule_tif, ecoli_tif, calibrated_png, graticule,
                   pixels_between_lines, nm_per_pixel, clicks, stamps, events,
                   ecoli, ecoli_norm, scale_bar_length, scale_bar_offset>>

\* calibration from the two positions read off the profile by hand
ManualCalibration ==
    /\ pc = "manual"
    /\ pixels_between_lines' = ManualRight - ManualLeft
    /\ nm_per_pixel' = NmPerPixel(pixels_between_lines')
    /\ pc' = "ginput"
    /\ UNCHANGED <<fault, graticule_tif, ecoli_tif, calibrated_png, graticule,
                   clicks, stamps, events, ecoli, ecoli_norm,
                   scale_bar_length, scale_bar_offset>>

\* faulty variant: the new point is put in front of the points held
GinputAddFront(x, y) ==
    /\ pc = "ginput"
    /\ events < MaxEvents
    /\ events' = events + 1
    /\ clicks' = <<<<x, y>>>> \o clicks
    /\ stamps' = <<events'>> \o stamps
    /\ pc' = IF Len(clicks') = 2 THEN "click_calibration" ELSE "ginput"
    /\ UNCHANGED <<fault, graticule_tif, ecoli_tif, calibrated_png, graticule,
                   pixels_between_lines, nm_per_pixel, ecoli, ecoli_norm,
                   scale_bar_length, scale_bar_offset>>

\* plt.ginput(2, timeout=-1): a left click inside the axes adds a point; the
\* call returns as soon as two points are held
GinputAdd(x, y) ==
    /\ pc = "ginput"
    /\ events < MaxEvents
    /\ events' = events + 1
    /\ clicks' = Append(clicks, <<x, y>>)
    /\ stamps' = Append(stamps, events')
    /\ pc' = IF Len(clicks') = 2 THEN "click_calibration" ELSE "ginput"
    /\ UNCHANGED <<fault, graticule_tif, ecoli_tif, calibrated_png, graticule,
                   pixels_between_lines, nm_per_pixel, ecoli, ecoli_norm,
                   scale_bar_length, scale_bar_offset>>

\* plt.ginput: a right click (or backspace/delete) removes the last point
GinputPop ==
    /\ pc = "ginput"
    /\ events < MaxEvents
    /\ events' = events + 1
    /\ clicks' = IF clicks = <<>> THEN clicks ELSE SubSeq(clicks, 1, Len(clicks) - 1)
    /\ stamps' = IF stamps = <<>> THEN stamps ELSE SubSeq(stamps, 1, Len(stamps) - 1)
    /\ UNCHANGED <<pc, fault, graticule_tif, ecoli_tif, calibrated_png, graticule,
                   pixels_between_lines, nm_per_pixel, ecoli, ecoli_norm,
                   scale_bar_length, scale_bar_offset>>

\* plt.ginput: a middle click (or enter/escape) ends the input; the call
\* returns the points held so far
GinputStop ==
    /\ pc = "ginput"
    /\ pc' = "click_calibration"
    /\ UNCHANGED <<fault, graticule_tif, ecoli_tif, calibrated_png, graticule,
                   pixels_between_lines, nm_per_pixel, clicks, stamps, events,
                   ecoli, ecoli_norm, scale_bar_length, scale_bar_offset>>

\* faulty variant: the distance is taken from the clicks, the calibration is not redone
ClickCalibrationKept ==
    /\ pc = "click_calibration"
    /\ IF Len(clicks) < 2
       THEN /\ pc' = "aborted"
            /\ fault' = "IndexError"
            /\ UNCHANGED <<pixels_between_lines, nm_per_pixel>>
       ELSE /\ pixels_between_lines' = Abs(clicks[2][1] - clicks[1][1])
            /\ nm_per_pixel' = nm_per_pixel
            /\ pc' = "read_ecoli"
            /\ fault' = fault
    /\ UNCHANGED <<graticule_tif, ecoli_tif, calibrated_png, graticule,
                   clicks, stamps, events, ecoli, ecoli_norm,
                   scale_bar_length, scale_bar_offset>>

\* calibration from the clicks (clicks[1][0], clicks[0][0] are 0-based); the
\* coordinates are the xdata of the events, numpy float64 scalars, so that a
\* zero distance makes the quotient inf and raises nothing
ClickCalibration ==
    /\ pc = "click_calibration"
    /\ IF Len(clicks) < 2
       THEN /\ pc' = "aborted"
            /\ fault' = "IndexError"
            /\ UNCHANGED <<pixels_between_lines, nm_per_pixel>>
       ELSE /\ pixels_between_lines' = Abs(clicks[2][1] - clicks[1][1])
            /\ nm_per_pixel' = NmPerPixel(pixels_between_lines')
            /\ pc' = "read_ecoli"
            /\ fault' = fault
    /\ UNCHANGED <<graticule_tif, ecoli_tif, calibrated_png, graticule,
                   clicks, stamps, events, ecoli, ecoli_norm,
                   scale_bar_length, scale_bar_offset>>

\* ecoli = imageio.v3.imread('Ecoli100x.tif')
ReadEcoli ==
    /\ pc = "read_ecoli"
    /\ IF ecoli_tif.exists
       THEN /\ ecoli' = ecoli_tif.img
            /\ pc' = "normalize"
            /\ fault' = fault
       ELSE /\ ecoli' = ecoli
            /\ pc' = "aborted"
            /\ fault' = "FileNotFoundError"
    /\ UNCHANGED <<graticule_tif, ecoli_tif, calibrated_png, graticule,
                   pixels_between_lines, nm_per_pixel, clicks, stamps, events,
                   ecoli_norm, scale_bar_length, scale_bar_offset>>

\* ecoli_norm = ... and figure 3
Normalize ==
    /\ pc = "normalize"
    /\ ecoli_norm' = NormalizeImage(ecoli)
    /\ pc' = "scale_bar"
    /\ UNCHANGED <<fault, graticule_tif, ecoli_tif, calibrated_png, graticule,
                   pixels_between_lines, nm_per_pixel, clicks, stamps, events,
                   ecoli, scale_bar_length, scale_bar_offset>>

\* scale_bar_length = 1_000 / nm_per_pixel and the dictionary of offsets;
\* int() of an infinity or a nan raises
ScaleBar ==
    /\ pc = "scale_bar"
    /\ scale_bar_length' = FDiv(FromInt(1000), nm_per_pixel)
    /\ IF scale_bar_length'.k \in {"inf", "nan"}
       THEN /\ pc' = "aborted"
            /\ fault' = "OverflowError"
            /\ scale_bar_offset' = scale_bar_offset
       ELSE /\ scale_bar_offset' = OffsetsOf(scale_bar_length')
            /\ pc' = "overlay"
            /\ fault' = fault
    /\ UNCHANGED <<graticule_tif, ecoli_tif, calibrated_png, graticule,
                   pixels_between_lines, nm_per_pixel, clicks, stamps, events,
                   ecoli, ecoli_norm>>

\* the slice assignments of the horizontal line and of the notches
Overlay ==
    /\ pc = "overlay"
    /\ ecoli_norm' = DrawScaleBar(ecoli_norm, scale_bar_offset)
    /\ pc' = "savefig"
    /\ UNCHANGED <<fault, graticule_tif, ecoli_tif, calibrated_png, graticule,
                   pixels_between_lines, nm_per_pixel, clicks, stamps, events,
                   ecoli, scale_bar_length, scale_bar_offset>>

\* figure 4 with its labels, plt.savefig('EcoliCalibrated.png'), plt.show()
SaveFigure ==
    /\ pc = "savefig"
    /\ calibrated_png' =
         [exists |-> TRUE, img |-> ecoli_norm,
          labels |-> {<<"um", scale_bar_xL, scale_bar_y + 10>>}
                     \cup {<<t, scale_bar_xL + scale_bar_offset[t], scale_bar_y + 10>> :
                             t \in TickKeys}]
    /\ pc' = "done"
    /\ UNCHANGED <<fault, graticule_tif, ecoli_tif, graticule,
                   pixels_between_lines, nm_per_pixel, clicks, stamps, events,
                   ecoli, ecoli_norm, scale_bar_length, scale_bar_offset>>

Next ==
    \/ ReadGraticule
    \/ Profile
    \/ ManualCalibration
    \/ \E x \in ClickXs, y \in ClickYs : GinputAdd(x, y)
    \/ GinputPop
    \/ GinputStop
    \/ ClickCalibration
    \/ ReadEcoli
    \/ Normalize
    \/ ScaleBar
    \/ Overlay
    \/ SaveFigure

Spec == Init /\ [][Next]_vars

\* ------------------------------------------------------------- properties
AfterClickCalibration == {"read_ecoli", "normalize", "scale_bar", "overlay", "savefig", "done"}
AfterScaleBar == {"overlay", "savefig", "done"}
AfterOverlay == {"savefig", "done"}

TickLength(t) == CASE t = "1" -> 1 [] t = "5" -> 5 [] t = "10" -> 10

FOne == FromInt(1)

\* floor(v * 2^j) of a finite float64 v
FixedPoint(v, j) == Trunc([v EXCEPT !.e = @ + j])

\* floor((1000 * 8 * 10 / D) * 2^j) in exact integer arithmetic
ExactFixedPoint(D, j) ==
    ((1000 * 8 * 10) \div D) * 2^j + ((((1000 * 8 * 10) % D) * 2^j) \div D)

\* binary digits the comparison keeps after the point
FractionBits(D) == IF D >= 40 THEN 20 ELSE 10

\* floor(a + 1/2) of a finite float64 a
RoundHalfUp(a) == (Trunc([a EXCEPT !.e = @ + 1]) + 1) \div 2

\* C1: the scale factor is (8 x 10 um) / D, in nm 1000*8*10/D: on the manual
\* path D = 1299 - 62 = 1237 and the value is within 0.01 of 64.67; on the
\* clicked path D = |x2 - x1| > 0 and the value agrees with the exact quotient
\* to 2^-20 (2^-10 for D < 40).
C1_ScaleFactor ==
    /\ pc \in {"ginput", "click_calibration"} =>
         /\ pixels_between_lines = 1299 - 62
         /\ nm_per_pixel.k = "fin"
         /\ FixedPoint(nm_per_pixel, 20) = ExactFixedPoint(1237, 20)
         /\ 100 * FixedPoint(nm_per_pixel, 10) >= 6466 * 2^10
         /\ 100 * (FixedPoint(nm_per_pixel, 10) + 1) <= 6468 * 2^10
    /\ (pc \in AfterClickCalibration /\ pixels_between_lines > 0) =>
         /\ pixels_between_lines = Abs(clicks[2][1] - clicks[1][1])
         /\ nm_per_pixel.k = "fin"
         /\ FixedPoint(nm_per_pixel, FractionBits(pixels_between_lines))
              = ExactFixedPoint(pixels_between_lines, FractionBits(pixels_between_lines))

C1_Witness ==
    /\ pc = "read_ecoli"
    /\ pixels_between_lines > 0
    /\ pixels_between_lines # 1237

\* the output values of the pixels whose input intensity is v
OutputsOf(v) == {ecoli_norm.pix[p] : p \in {q \in DOMAIN ecoli.pix : ecoli.pix[q] = v}}

\* C2: when max > min the normalized image has minimum exactly 0 and maximum
\* exactly 1, and in[p] <= in[q] implies out[p] <= out[q].
C2_Normalization ==
    (pc = "scale_bar" /\ MaxOf(PixelValues(ecoli)) > MinOf(PixelValues(ecoli))) =>
        /\ DOMAIN ecoli_norm.pix = DOMAIN ecoli.pix
        /\ \A p \in DOMAIN ecoli_norm.pix :
              FLeq(FZero, ecoli_norm.pix[p]) /\ FLeq(ecoli_norm.pix[p], FOne)
        /\ \E p \in DOMAIN ecoli_norm.pix : ecoli_norm.pix[p] = FZero
        /\ \E p \in DOMAIN ecoli_norm.pix : ecoli_norm.pix[p] = FOne
        /\ \A v \in PixelValues(ecoli) : \A u \in PixelValues(ecoli) :
              v <= u => \A a \in OutputsOf(v) : \A b \in OutputsOf(u) : FLeq(a, b)

C2_Witness ==
    /\ pc = "scale_bar"
    /\ MaxOf(PixelValues(ecoli)) > MinOf(PixelValues(ecoli))
    /\ \E p \in DOMAIN ecoli_norm.pix :
          ecoli_norm.pix[p].k = "fin" /\ ecoli_norm.pix[p] # FOne

\* C3 as stated: every offset is L x scale factor (length per pixel, in nm or
\* in um), reduced by one rule, rounding or truncation, for the three ticks.
C3_OffsetIsLengthTimesScale ==
    (pc \in AfterScaleBar /\ nm_per_pixel.k = "fin") =>
        \E factor \in {nm_per_pixel, FDiv(nm_per_pixel, FromInt(1000))} :
            \/ \A t \in TickKeys :
                  scale_bar_offset[t] = Trunc(FMulInt(TickLength(t), factor))
            \/ \A t \in TickKeys :
                  scale_bar_offset[t] = RoundHalfUp(FMulInt(TickLength(t), factor))

\* C3: every offset is int(L * scale_bar_length), scale_bar_length being
\* 1000 / nm_per_pixel, the reciprocal of the scale factor (pixels per um),
\* truncated for the three ticks alike; for a distance D > 0 that is
\* floor(L * D / 80) or, by the rounding of the two divisions, one less.
C3_OffsetIsLengthOverScale ==
    pc \in AfterScaleBar =>
        \A ppu \in {FDiv(FromInt(1000), nm_per_pixel)} : \A t \in TickKeys :
            /\ scale_bar_offset[t] = Trunc(FMulInt(TickLength(t), ppu))
            /\ pixels_between_lines > 0 =>
                 /\ scale_bar_offset[t] <= (TickLength(t) * pixels_between_lines) \div 80
                 /\ scale_bar_offset[t] >= (TickLength(t) * pixels_between_lines) \div 80 - 1
            /\ pixels_between_lines = 0 => scale_bar_offset[t] = 0

C3_Witness ==
    /\ pc \in AfterScaleBar
    /\ pixels_between_lines > 0
    /\ scale_bar_offset["1"] > 0
    /\ scale_bar_offset["10"] # 10 * scale_bar_offset["1"]

\* C4 as stated: for every positive finite scale factor the offsets are
\* strictly increasing in the tick length.
C4_StrictlyIncreasing ==
    (pc \in AfterScaleBar /\ pixels_between_lines > 0) =>
        /\ scale_bar_offset["1"] < scale_bar_offset["5"]
        /\ scale_bar_offset["5"] < scale_bar_offset["10"]

\* C4: the offsets never decrease with the tick length, and they increase
\* strictly when the distance is at least 80 pixels (scale_bar_length >= 1).
C4_Monotone ==
    pc \in AfterScaleBar =>
        /\ scale_bar_offset["1"] <= scale_bar_offset["5"]
        /\ scale_bar_offset["5"] <= scale_bar_offset["10"]
        /\ pixels_between_lines >= 80 =>
             /\ 1 <= scale_bar_offset["1"]
             /\ scale_bar_offset["1"] < scale_bar_offset["5"]
             /\ scale_bar_offset["5"] < scale_bar_offset["10"]

C4_Witness ==
    /\ pc \in AfterScaleBar
    /\ pixels_between_lines >= 80
    /\ scale_bar_offset["5"] > scale_bar_offset["1"]

\* rows [900, 905), columns [1150, 1150 + 1 + offset(10))
InBar(p) ==
    /\ 900 <= p[1] /\ p[1] < 905
    /\ 1150 <= p[2] /\ p[2] < 1150 + 1 + scale_bar_offset["10"]

\* rows [875, 901), columns 1150, 1150 + offset(1), 1150 + offset(5), 1150 + offset(10)
InNotch(p) ==
    /\ 875 <= p[1] /\ p[1] < 901
    /\ p[2] \in {1150} \cup {1150 + scale_bar_offset[t] : t \in TickKeys}

\* C5: the overlay writes 0 to exactly the pixels of the bar and of the four
\* notches; every other pixel keeps its normalized value.
C5_OverlayFrame ==
    pc \in AfterOverlay =>
        \A base \in {NormalizeImage(ecoli)} :
            /\ DOMAIN ecoli_norm.pix = DOMAIN base.pix
            /\ \A p \in DOMAIN ecoli_norm.pix :
                  ecoli_norm.pix[p] = IF InBar(p) \/ InNotch(p) THEN FZero ELSE base.pix[p]

C5_Witness ==
    /\ pc \in AfterOverlay
    /\ scale_bar_offset["1"] > 0
    /\ \E p \in DOMAIN ecoli_norm.pix : \E q \in DOMAIN ecoli_norm.pix :
          /\ InBar(p) /\ ~InNotch(p) /\ ecoli_norm.pix[p] = FZero
          /\ ~InBar(q) /\ ~InNotch(q) /\ ecoli_norm.pix[q] = FOne
    /\ \E p \in DOMAIN ecoli_norm.pix :
          InNotch(p) /\ ~InBar(p) /\ p[2] = 1150 + scale_bar_offset["5"]

\* the bar or a notch reaches past the image
RegionPastImage ==
    \/ 1150 + 1 + scale_bar_offset["10"] > ecoli_norm.w
    \/ 900 + 5 > ecoli_norm.h

\* C6: when a region reaches past the image the overlay fails with a bounds
\* error; the run never goes on to rendering and saving.
C6_BoundsError ==
    (pc \in AfterOverlay \/ calibrated_png.exists) => ~RegionPastImage

\* C7: a constant target image makes the normalization fail; no nan-valued
\* image flows on into the overlay and the saved output.
C7_NoNaNImage ==
    /\ \A p \in DOMAIN ecoli_norm.pix : ecoli_norm.pix[p].k # "nan"
    /\ \A p \in DOMAIN calibrated_png.img.pix : calibrated_png.img.pix[p].k # "nan"

\* C8: two clicks with the same x make the calibration fail; the load of the
\* target image, the overlay and the write of the output are never reached.
C8_ZeroDistanceAborts ==
    (Len(clicks) = 2 /\ clicks[1][1] = clicks[2][1]) =>
        /\ pc \in {"click_calibration", "aborted"}
        /\ ~calibrated_png.exists

\* the points held are in the order of their clicks
InClickOrder == \A i \in 1..Len(stamps) : \A j \in 1..Len(stamps) : i < j => stamps[i] < stamps[j]

C10_ClickedScaleInUse ==
    pc \in AfterScaleBar =>
        /\ Len(clicks) = 2
        /\ \A nm \in {FDiv(KnownDistanceNm, FromInt(Abs(clicks[2][1] - clicks[1][1])))} :
              /\ nm_per_pixel = nm
              /\ scale_bar_length = FDiv(FromInt(1000), nm)
              /\ scale_bar_offset["1"] = Trunc(scale_bar_length)
        /\ Abs(clicks[2][1] - clicks[1][1]) # 1299 - 62 =>
              nm_per_pixel # FDiv(KnownDistanceNm, FromInt(1299 - 62))
        /\ pc = "done" => (calibrated_png.exists /\ calibrated_png.img = ecoli_norm)

C10_Witness ==
    /\ pc = "done"
    /\ calibrated_png.exists
    /\ Abs(clicks[2][1] - clicks[1][1]) \notin {0, 1299 - 62}
    /\ scale_bar_offset["10"] > 0

====
